---- MODULE Spec2Model ----
(***************************************************************************)
(* A model of build.py, the static site generator of kwbunker.github.io:   *)
(* the frontmatter parser, the content loader, the site builder, the       *)
(* preview server and the watch loop.                                      *)
(*                                                                         *)
(* Text is a sequence of one-character strings.  A mapping (a Python dict) *)
(* is a set of <<key, value>> pairs with pairwise distinct keys.           *)
(***************************************************************************)
EXTENDS Integers, Sequences, FiniteSets, TLC

VARIABLES
    text,           \* parser run: the input handed to parse_frontmatter
    hdr,            \* parser run: the header lines the input was composed of
    parsed,         \* parser run: <<"none">> or <<"ok", frontmatter, body>>
    docsExists,     \* OUTPUT_DIR.exists()
    docs,           \* the entries of OUTPUT_DIR: name -> <<kind, data>>
    docsIno,        \* identity of the directory now named OUTPUT_DIR
    staticExists,   \* STATIC_DIR.exists()
    static,         \* the top-level entries of STATIC_DIR: name -> <<kind, data>>
    contentExists,  \* CONTENT_DIR.exists()
    contentFiles,        \* the *.md files of CONTENT_DIR: stem -> text
    bpc,            \* build(): the step the running build is at
    cname_content,  \* build(): <<"none">> or <<"some", text>>
    todo,           \* build(): the static entries still to copy
    ctodo,          \* build(): the content files still to load
    pages,          \* build(): slug -> page record
    pre,            \* history: <<docsExists, docs>> when the build started
    copied,         \* history: the static entries this build copied in full
    failedAt,       \* history: the step that raised, or "none"
    nbuilds,        \* history: the number of builds started
    now,            \* time.time(), in tenths of a second
    last_build,     \* RebuildHandler.last_build
    queue,          \* the observer's event queue: <<id, time, path, own>>
    hpc,            \* the observer thread: "off", "idle" or "building"
    elapsed,        \* the time the running rebuild has taken so far
    nev,            \* the number of events queued so far
    nenv,           \* the number of those that came from outside the build
    log,            \* history: one record per event handed to on_any_event
    lastDone,       \* history: when the last rebuild returned, or -1
    lastTrig,       \* history: when the event that started it occurred, or -1
    mpc,            \* watch(): the main thread
    spc,            \* the server thread: "off", "chdir", "serving", "dead"
    cwd,            \* the process's working directory, or -1 for ROOT's side
    req             \* history: what the last preview request saw

parseVars == <<text, hdr, parsed>>
fsVars == <<docsExists, docs, docsIno, staticExists, static, contentExists, contentFiles>>
srcVars == <<staticExists, static, contentExists, contentFiles>>
buildVars == <<bpc, cname_content, todo, ctodo, pages, pre, copied, failedAt, nbuilds>>

timeVars == <<now, last_build, queue, hpc, elapsed, nev, nenv, log, lastDone, lastTrig>>
serveVars == <<mpc, spc, cwd, req>>
watchVars == <<timeVars, serveVars>>

vars == <<parseVars, fsVars, buildVars, watchVars>>

-----------------------------------------------------------------------------
(* Bounds *)

MaxLen == 6         \* longest unstructured input text
MaxLines == 2       \* most header lines of a composed input text
MaxBuilds == 2      \* most builds started in one run
MaxTicks == 18      \* how long a watch run is followed, in tenths of a second
MaxBuildTicks == 6  \* the longest a rebuild takes, in tenths of a second
MaxEvents == 2      \* most file system events from outside the build

-----------------------------------------------------------------------------
(* Characters and text helpers (Python str methods) *)

NL == "\n"
CR == "\r"
SP == " "
DASH == "-"
COLON == ":"
QUOTE == "\""

MARKER == <<DASH, DASH, DASH>>

\* the characters str.strip() removes when called without argument
Whitespace == {SP, NL, CR, "\t"}

\* s[i..j] as a sequence; empty when j < i
Slice(s, i, j) == [k \in 1..(j - i + 1) |-> s[i + k - 1]]

\* str.startswith
StartsWith(s, p) == Len(s) >= Len(p) /\ Slice(s, 1, Len(p)) = p

\* str.find from position i (1-based); 0 when p does not occur at or after i
Find(s, p, i) ==
    LET hits == {k \in i..(Len(s) - Len(p) + 1) : Slice(s, k, k + Len(p) - 1) = p}
    IN  IF hits = {} THEN 0 ELSE CHOOSE k \in hits : \A m \in hits : k <= m

\* `c in s` for a single character c
Has(s, c) == \E k \in 1..Len(s) : s[k] = c

\* str.strip(chars): drop every leading and every trailing character of chars
StripChars(s, chars) ==
    LET keep == {k \in 1..Len(s) : s[k] \notin chars}
    IN  IF keep = {} THEN <<>>
        ELSE LET lo == CHOOSE k \in keep : \A m \in keep : k <= m
                 hi == CHOOSE k \in keep : \A m \in keep : k >= m
             IN  Slice(s, lo, hi)

\* str.strip()
Strip(s) == StripChars(s, Whitespace)

\* str.split(sep, maxsplit) for a non-empty separator
RECURSIVE SplitMax(_, _, _)
SplitMax(s, sep, maxsplit) ==
    LET k == Find(s, sep, 1)
    IN  IF maxsplit = 0 \/ k = 0 THEN <<s>>
        ELSE <<Slice(s, 1, k - 1)>>
             \o SplitMax(Slice(s, k + Len(sep), Len(s)), sep, maxsplit - 1)

\* str.split(sep): no limit on the number of splits
SplitAll(s, sep) == SplitMax(s, sep, Len(s))

\* dict[key] = value
DictSet(d, key, value) == {p \in d : p[1] # key} \cup {<<key, value>>}

DictKeys(d) == {p[1] : p \in d}

DictGet(d, key) == (CHOOSE p \in d : p[1] = key)[2]

-----------------------------------------------------------------------------
(* parse_frontmatter *)

\* the loop body of parse_frontmatter: one header line folded into the mapping
FrontmatterLine(fm, line) ==
    IF Has(line, COLON)
    THEN LET kv == SplitMax(line, <<COLON>>, 1)
         IN  DictSet(fm, Strip(kv[1]), StripChars(Strip(kv[2]), {QUOTE}))
    ELSE fm

RECURSIVE FrontmatterLines(_, _)
FrontmatterLines(fm, lines) ==
    IF lines = <<>> THEN fm
    ELSE FrontmatterLines(FrontmatterLine(fm, Head(lines)), Tail(lines))

\* parse_frontmatter with the body trimmed on every path
parse_frontmatter_trimmed(content) ==
    IF StartsWith(content, MARKER)
    THEN LET parts == SplitMax(content, MARKER, 2)
         IN  IF Len(parts) >= 3
             THEN <<FrontmatterLines({}, SplitAll(Strip(parts[2]), <<NL>>)),
                    Strip(parts[3])>>
             ELSE <<{}, Strip(content)>>
    ELSE <<{}, Strip(content)>>

\* parse_frontmatter(content) = <<frontmatter, body>>
parse_frontmatter(content) ==
    IF StartsWith(content, MARKER)
    THEN LET parts == SplitMax(content, MARKER, 2)
         IN  IF Len(parts) >= 3
             THEN <<FrontmatterLines({}, SplitAll(Strip(parts[2]), <<NL>>)),
                    Strip(parts[3])>>
             ELSE <<{}, content>>
    ELSE <<{}, content>>

-----------------------------------------------------------------------------
(* Inputs of the parser runs *)

Alphabet == {DASH, COLON, NL, SP, "k"}

RECURSIVE TextsUpTo(_)
TextsUpTo(n) ==
    IF n = 0 THEN {<<>>}
    ELSE LET shorter == TextsUpTo(n - 1)
         IN  shorter \cup {Append(t, c) : t \in shorter, c \in Alphabet}

\* header lines: `key: value` lines and lines without a separator
ValidLines ==
    { <<"a", COLON, SP, "x">>,                                \* a: x
      <<"b", COLON, SP, QUOTE, "y", QUOTE>>,                  \* b: "y"
      <<SP, "c", SP, COLON, SP, "x", COLON, "y", SP>>,        \*  c : x:y
      <<"d", COLON, SP, QUOTE, QUOTE, "z", QUOTE, QUOTE>>,    \* d: ""z""
      <<"e", COLON, SP, "x", DASH, DASH, DASH, "y">> }        \* e: x---y

MalformedLines ==
    { <<"n", "o">>,                                           \* no
      <<>> }                                                  \* an empty line

HeaderLines == ValidLines \cup MalformedLines

RECURSIVE LinesUpTo(_)
LinesUpTo(n) ==
    IF n = 0 THEN {<<>>}
    ELSE LET shorter == LinesUpTo(n - 1)
         IN  shorter \cup {Append(ls, l) : ls \in shorter, l \in HeaderLines}

Bodies == { <<"B">>, <<SP, "B", NL>>, <<>> }

RECURSIVE JoinLines(_)
JoinLines(ls) ==
    IF ls = <<>> THEN <<>> ELSE Head(ls) \o <<NL>> \o JoinLines(Tail(ls))

\* a document with a header block: marker line, header lines, marker line, body
Compose(ls, body) == MARKER \o <<NL>> \o JoinLines(ls) \o MARKER \o <<NL>> \o body

ParseIdle == text = <<>> /\ hdr = <<"plain">> /\ parsed = <<"none">>

InitParse ==
    /\ parsed = <<"none">>
    /\ \/ /\ hdr = <<"plain">>
          /\ text \in TextsUpTo(MaxLen)
       \/ \E ls \in LinesUpTo(MaxLines), body \in Bodies :
             /\ hdr = <<"composed", ls, body>>
             /\ text = Compose(ls, body)

Parse ==
    /\ parsed = <<"none">>
    /\ parsed' = <<"ok">> \o parse_frontmatter(text)
    /\ UNCHANGED <<text, hdr, fsVars, buildVars, watchVars>>

-----------------------------------------------------------------------------
(* The file system the build works on *)

CNAME == "CNAME"
INDEX == "index.html"

\* the default passthrough value build() writes
DefaultCname == <<"www.kristopherbunker.com">>

\* a regular file holding text, a directory, a file cut short by a failed write
TextFile(data) == <<"text", data>>
Directory == <<"dir", <<>>>>
Partial == <<"partial", <<>>>>

\* Path.read_text(): text mode with universal newlines
RECURSIVE read_text(_)
read_text(data) ==
    IF data = <<>> THEN <<>>
    ELSE IF Head(data) = CR
         THEN IF Len(data) >= 2 /\ data[2] = NL
              THEN <<NL>> \o read_text(Tail(Tail(data)))
              ELSE <<NL>> \o read_text(Tail(data))
         ELSE <<Head(data)>> \o read_text(Tail(data))

\* Path.write_text(): text mode, "\n" written as os.linesep (POSIX: "\n")
write_text(s) == TextFile(s)

-----------------------------------------------------------------------------
(* load_content *)

K_SLUG == <<"s", "l", "u", "g">>
K_HTML == <<"h", "t", "m", "l">>
K_BODY == <<"b", "o", "d", "y">>

\* markdown.Markdown(...).convert(body): the external converter
Markdown(body) == <<"<p>">> \o body \o <<"</p>">>

\* {**a, **b}: the entries of b win
DictMerge(a, b) == {p \in a : p[1] \notin DictKeys(b)} \cup b

\* load_content(content_file) for the file stem.md holding txt
load_content(stem, txt) ==
    LET fb == parse_frontmatter(txt)
    IN  DictMerge({<<K_SLUG, stem>>, <<K_HTML, Markdown(fb[2])>>, <<K_BODY, fb[2]>>},
                  fb[1])

-----------------------------------------------------------------------------
(* build(): the steps as functions of the output directory *)

\* lines 80-82: the passthrough file read out before the directory is removed
ReadCname(exists, d) ==
    IF exists /\ CNAME \in DictKeys(d)
    THEN <<"some", read_text(DictGet(d, CNAME)[2])>>
    ELSE <<"none">>

\* a reset that leaves the old entries in place
ResetDirMerging(d) == d

\* lines 84-86: rmtree, then mkdir
ResetDir(d) == {}

\* restore that writes nothing when no passthrough file was read
RestoreCnameNoDefault(d, cc) ==
    IF cc[1] = "some" /\ cc[2] # <<>> THEN DictSet(d, CNAME, write_text(cc[2])) ELSE d

\* lines 89-93: `if cname_content:` is false for None and for the empty text
RestoreCname(d, cc) ==
    IF cc[1] = "some" /\ cc[2] # <<>>
    THEN DictSet(d, CNAME, write_text(cc[2]))
    ELSE DictSet(d, CNAME, write_text(DefaultCname))

\* shutil.copytree raises when the destination exists
CopyCollides(d, n, e) == e[1] = "dir" /\ n \in DictKeys(d)

\* lines 98-102: copytree or copy2 of one top-level entry
CopyItem(d, n, e) == DictSet(d, n, e)

\* template.render(site=SITE, pages=pages): the external template engine
Render(pgs) == <<"html", pgs>>

\* write_text raises when index.html is a directory
IndexIsDir(d) == INDEX \in DictKeys(d) /\ DictGet(d, INDEX)[1] = "dir"

\* line 119
WriteIndex(d, pgs) == DictSet(d, INDEX, Render(pgs))

-----------------------------------------------------------------------------
(* build(): the steps as actions *)

BuildIdle ==
    /\ bpc = "idle"
    /\ cname_content = <<"none">>
    /\ todo = {}
    /\ ctodo = {}
    /\ pages = {}
    /\ pre = <<FALSE, {}>>
    /\ copied = {}
    /\ failedAt = "none"
    /\ nbuilds = 0

\* line 74-77: build() is entered
BuildEnter ==
    /\ bpc \in {"idle", "done", "failed"}
    /\ nbuilds < MaxBuilds
    /\ bpc' = "reset"
    /\ cname_content' = <<"none">>
    /\ todo' = {}
    /\ ctodo' = {}
    /\ pages' = {}
    /\ pre' = <<docsExists, docs>>
    /\ copied' = {}
    /\ failedAt' = "none"
    /\ nbuilds' = nbuilds + 1
    /\ UNCHANGED parseVars
    /\ UNCHANGED fsVars

\* lines 78-86
BuildReset ==
    /\ bpc = "reset"
    /\ cname_content' = ReadCname(docsExists, docs)
    /\ docs' = IF docsExists THEN ResetDir(docs) ELSE {}
    /\ docsExists' = TRUE
    /\ docsIno' = docsIno + 1
    /\ bpc' = "restore"
    /\ UNCHANGED <<parseVars, watchVars>>
    /\ UNCHANGED <<srcVars, todo, ctodo, pages, pre, copied, failedAt, nbuilds>>

\* lines 89-96
BuildRestore ==
    /\ bpc = "restore"
    /\ docs' = RestoreCname(docs, cname_content)
    /\ todo' = IF staticExists THEN DictKeys(static) ELSE {}
    /\ bpc' = "copy"
    /\ UNCHANGED <<parseVars, watchVars>>
    /\ UNCHANGED <<docsExists, docsIno, srcVars, cname_content, ctodo, pages, pre,
                   copied, failedAt, nbuilds>>

\* lines 97-102: one iteration of the copy loop, in iterdir() order
BuildCopyOne ==
    /\ bpc = "copy"
    /\ \E n \in todo :
          /\ ~CopyCollides(docs, n, DictGet(static, n))
          /\ docs' = CopyItem(docs, n, DictGet(static, n))
          /\ todo' = todo \ {n}
          /\ copied' = copied \cup {n}
    /\ UNCHANGED <<parseVars, watchVars>>
    /\ UNCHANGED <<docsExists, docsIno, srcVars, bpc, cname_content, ctodo, pages,
                   pre, failedAt, nbuilds>>

\* lines 97-102: the copy of one entry raises; the destination is left as it
\* was or, once opened for writing, cut short
BuildCopyError ==
    /\ bpc = "copy"
    /\ \E n \in todo :
          \/ docs' = docs
          \/ /\ ~CopyCollides(docs, n, DictGet(static, n))
             /\ docs' = DictSet(docs, n, Partial)
    /\ bpc' = "failed"
    /\ failedAt' = "copy"
    /\ UNCHANGED <<parseVars, watchVars>>
    /\ UNCHANGED <<docsExists, docsIno, srcVars, cname_content, todo, ctodo, pages,
                   pre, copied, nbuilds>>

\* lines 103-110: the copy loop is over
BuildCopyDone ==
    /\ bpc = "copy"
    /\ todo = {}
    /\ ctodo' = IF contentExists THEN DictKeys(contentFiles) ELSE {}
    /\ bpc' = "load"
    /\ UNCHANGED <<parseVars, watchVars>>
    /\ UNCHANGED <<fsVars, cname_content, todo, pages, pre, copied, failedAt, nbuilds>>

\* lines 111-114: one iteration of the load loop, in glob() order
BuildLoadOne ==
    /\ bpc = "load"
    /\ \E s \in ctodo :
          LET page == load_content(s, DictGet(contentFiles, s))
          IN  /\ pages' = DictSet(pages, DictGet(page, K_SLUG), page)
              /\ ctodo' = ctodo \ {s}
    /\ UNCHANGED <<parseVars, watchVars>>
    /\ UNCHANGED <<fsVars, bpc, cname_content, todo, pre, copied, failedAt, nbuilds>>

\* line 58: reading a content file raises
BuildLoadError ==
    /\ bpc = "load"
    /\ ctodo # {}
    /\ bpc' = "failed"
    /\ failedAt' = "load"
    /\ UNCHANGED <<parseVars, watchVars>>
    /\ UNCHANGED <<fsVars, cname_content, todo, ctodo, pages, pre, copied, nbuilds>>

\* the load loop is over
BuildLoadDone ==
    /\ bpc = "load"
    /\ ctodo = {}
    /\ bpc' = "render"
    /\ UNCHANGED <<parseVars, watchVars>>
    /\ UNCHANGED <<fsVars, cname_content, todo, ctodo, pages, pre, copied, failedAt,
                   nbuilds>>

\* lines 117-122
BuildRender ==
    /\ bpc = "render"
    /\ ~IndexIsDir(docs)
    /\ docs' = WriteIndex(docs, pages)
    /\ bpc' = "done"
    /\ UNCHANGED <<parseVars, watchVars>>
    /\ UNCHANGED <<docsExists, docsIno, srcVars, cname_content, todo, ctodo, pages,
                   pre, copied, failedAt, nbuilds>>

\* lines 117-118: the template is missing or its rendering raises
BuildTemplateError ==
    /\ bpc = "render"
    /\ bpc' = "failed"
    /\ failedAt' = "template"
    /\ UNCHANGED <<parseVars, watchVars>>
    /\ UNCHANGED <<fsVars, cname_content, todo, ctodo, pages, pre, copied, nbuilds>>

\* line 119: write_text raises, before the file is opened or after it was
\* opened (created or truncated) and before its text was written in full
BuildWriteError ==
    /\ bpc = "render"
    /\ \/ docs' = docs
       \/ /\ ~IndexIsDir(docs)
          /\ docs' = DictSet(docs, INDEX, Partial)
    /\ bpc' = "failed"
    /\ failedAt' = "write"
    /\ UNCHANGED <<parseVars, watchVars>>
    /\ UNCHANGED <<docsExists, docsIno, srcVars, cname_content, todo, ctodo, pages,
                   pre, copied, nbuilds>>

-----------------------------------------------------------------------------
(* watch(): the observer's handler *)

\* the debounce window of on_any_event: 1 second, in tenths of a second
Window == 10

\* time.time() when watch() starts: the epoch is long past, so the first
\* comparison against last_build = 0 lets the event through
StartTime == Window

\* paths, as the pieces the handler's substring tests tell apart
SrcPath == <<"content", "/", "a.md">>
DocsPath == <<"docs", "/", "index.html">>
GitPath == <<".git", "/", "HEAD">>
CachePath == <<"__pycache__", "/", "build.pyc">>

EventPaths == {SrcPath, DocsPath, GitPath, CachePath}

\* `x in event.src_path`
InPath(x, path) == \E k \in 1..Len(path) : path[k] = x

\* line 158 with the comparison turned around
DebouncedNever(t, lb) == t - lb > Window

\* line 158 with <= for <
DebouncedInclusive(t, lb) == t - lb <= Window

\* line 158: time.time() - self.last_build < 1
Debounced(t, lb) == t - lb < Window

\* line 160 without the version-control directory
ExcludedNoGit(path) ==
    ~(path # <<>> /\ ~(\E x \in {"docs", "__pycache__"} : InPath(x, path)))

\* line 160: the event is not on a path that starts a rebuild
Excluded(path) ==
    ~(path # <<>> /\ ~(\E x \in {"docs", ".git", "__pycache__"} : InPath(x, path)))

\* the record kept of one call of on_any_event
LogRecord(e, out, lbAfter) ==
    [id |-> e[1], occ |-> e[2], at |-> now, path |-> e[3], own |-> e[4], out |-> out,
     lb |-> last_build, lbAfter |-> lbAfter, done |-> lastDone, trig |-> lastTrig]

WatchIdle ==
    /\ now = StartTime
    /\ last_build = 0
    /\ queue = <<>>
    /\ hpc = "off"
    /\ elapsed = 0
    /\ nev = 0
    /\ nenv = 0
    /\ log = <<>>
    /\ lastDone = -1
    /\ lastTrig = -1
    /\ mpc = "off"
    /\ spc = "off"
    /\ cwd = -1
    /\ req = <<"none">>

\* a file system event from outside the build reaches the observer
EnvEvent ==
    /\ hpc # "off"
    /\ nenv < MaxEvents
    /\ \E path \in EventPaths :
          queue' = Append(queue, <<nev + 1, now, path, FALSE>>)
    /\ nev' = nev + 1
    /\ nenv' = nenv + 1
    /\ UNCHANGED <<parseVars, fsVars, buildVars, now, last_build, hpc, elapsed, log,
                   lastDone, lastTrig, serveVars>>

\* a tenth of a second passes; the observer thread hands over a queued event
\* as soon as it is free.  The clock is followed from the first event on:
\* until then nothing the handler reads depends on how late it is.
Tick ==
    /\ nev > 0
    /\ now < StartTime + MaxTicks
    /\ ~(hpc = "idle" /\ queue # <<>>)
    /\ hpc = "building" => elapsed < MaxBuildTicks
    /\ now' = now + 1
    /\ elapsed' = IF hpc = "building" THEN elapsed + 1 ELSE elapsed
    /\ UNCHANGED <<parseVars, fsVars, buildVars, last_build, queue, hpc, nev, nenv,
                   log, lastDone, lastTrig, serveVars>>

\* lines 158-159: the event falls inside the debounce window
OnEventDebounced ==
    /\ hpc = "idle"
    /\ queue # <<>>
    /\ Debounced(now, last_build)
    /\ queue' = Tail(queue)
    /\ log' = Append(log, LogRecord(Head(queue), "dropped", last_build))
    /\ UNCHANGED <<parseVars, fsVars, buildVars, now, last_build, hpc, elapsed, nev,
                   nenv, lastDone, lastTrig, serveVars>>

\* lines 158-160: the event is past the window and on an excluded path
OnEventExcluded ==
    /\ hpc = "idle"
    /\ queue # <<>>
    /\ ~Debounced(now, last_build)
    /\ Excluded(Head(queue)[3])
    /\ queue' = Tail(queue)
    /\ log' = Append(log, LogRecord(Head(queue), "ignored", last_build))
    /\ UNCHANGED <<parseVars, fsVars, buildVars, now, last_build, hpc, elapsed, nev,
                   nenv, lastDone, lastTrig, serveVars>>

\* lines 158-162: the event is past the window and on a source path: the
\* handler calls build()
OnEventCallsBuild ==
    /\ hpc = "idle"
    /\ queue # <<>>
    /\ ~Debounced(now, last_build)
    /\ ~Excluded(Head(queue)[3])
    /\ queue' = Tail(queue)
    /\ log' = Append(log, LogRecord(Head(queue), "built", last_build))
    /\ lastTrig' = Head(queue)[2]
    /\ hpc' = "building"
    /\ elapsed' = 0
    /\ UNCHANGED <<now, last_build, nev, nenv, lastDone, serveVars>>

\* line 163: build() has returned; its last write to OUTPUT_DIR is an event
\* of its own under the watched root
OnEventReturn ==
    /\ hpc = "building"
    /\ bpc = "done"
    /\ last_build' = now
    /\ lastDone' = now
    /\ hpc' = "idle"
    /\ queue' = Append(queue, <<nev + 1, now, DocsPath, TRUE>>)
    /\ nev' = nev + 1
    /\ bpc' = "idle"
    /\ elapsed' = 0
    /\ UNCHANGED <<parseVars, fsVars, cname_content, todo, ctodo, pages, pre, copied,
                   failedAt, nbuilds, now, nenv, log, lastTrig, serveVars>>

-----------------------------------------------------------------------------
(* build() as one step, for the runs that follow the handler's timing *)

RECURSIVE CopyAll(_, _)
CopyAll(d, items) ==
    IF items = {} THEN d
    ELSE LET p == CHOOSE q \in items : TRUE
         IN  CopyAll(CopyItem(d, p[1], p[2]), items \ {p})

RECURSIVE LoadAll(_, _)
LoadAll(pgs, files) ==
    IF files = {} THEN pgs
    ELSE LET f == CHOOSE q \in files : TRUE
             page == load_content(f[1], f[2])
         IN  LoadAll(DictSet(pgs, DictGet(page, K_SLUG), page), files \ {f})

\* the output directory a build that raises nowhere leaves
BuildResult(exists, d, st, ct) ==
    WriteIndex(CopyAll(RestoreCname(IF exists THEN ResetDir(d) ELSE {},
                                    ReadCname(exists, d)), st),
               LoadAll({}, ct))

\* lines 72-122 in one step
BuildWhole ==
    /\ bpc \in {"idle", "done", "failed"}
    /\ docs' = BuildResult(docsExists, docs, IF staticExists THEN static ELSE {},
                           IF contentExists THEN contentFiles ELSE {})
    /\ docsExists' = TRUE
    /\ docsIno' = docsIno + 1
    /\ pages' = LoadAll({}, IF contentExists THEN contentFiles ELSE {})
    /\ pre' = <<docsExists, docs>>
    /\ bpc' = "done"
    /\ nbuilds' = nbuilds + 1
    /\ UNCHANGED <<parseVars, srcVars, cname_content, todo, ctodo, copied, failedAt>>

\* on_any_event calls build(), which runs to its end while time passes
OnEventBuild ==
    /\ OnEventCallsBuild
    /\ BuildWhole

\* the state watch() is in once the initial build is done, the observer is
\* started and the server thread has changed into OUTPUT_DIR (lines 166-175)
InitWatch ==
    /\ ParseIdle
    /\ staticExists = TRUE /\ static = {<<"style.css", TextFile(<<"2">>)>>}
    /\ contentExists = TRUE /\ contentFiles = {<< <<"a">>, <<"x">> >>}
    /\ docsExists = TRUE
    /\ docs = BuildResult(FALSE, {}, static, contentFiles)
    /\ docsIno = 1
    /\ bpc = "idle"
    /\ cname_content = <<"none">>
    /\ todo = {}
    /\ ctodo = {}
    /\ pages = LoadAll({}, contentFiles)
    /\ pre = <<FALSE, {}>>
    /\ copied = {}
    /\ failedAt = "none"
    /\ nbuilds = 1
    /\ now = StartTime
    /\ last_build = 0
    /\ queue = <<>>
    /\ hpc = "idle"
    /\ elapsed = 0
    /\ nev = 0
    /\ nenv = 0
    /\ log = <<>>
    /\ lastDone = -1
    /\ lastTrig = -1
    /\ mpc = "loop"
    /\ spc = "serving"
    /\ cwd = 1
    /\ req = <<"none">>

NextWatch ==
    \/ EnvEvent
    \/ Tick
    \/ OnEventDebounced
    \/ OnEventExcluded
    \/ OnEventBuild
    \/ OnEventReturn

SpecWatch == InitWatch /\ [][NextWatch]_vars

-----------------------------------------------------------------------------
(* Claims about the watch handler *)

Built(r) == r.out = "built"

\* the event was handed over at least a second after the last rebuild returned
PastWindow(r) == r.done = -1 \/ r.at - r.done >= Window

\* the path is one the watch loop excludes
OnExcludedPath(r) ==
    \E k \in 1..Len(r.path) : r.path[k] \in {"docs", ".git", "__pycache__"}

\* every event is handed to the handler at most once
NeverReplayed ==
    /\ \A j \in 1..Len(log) : \A i \in 1..(j - 1) : log[i].id # log[j].id
    /\ \A k \in 1..Len(queue) : \A i \in 1..Len(log) : log[i].id # queue[k][1]

\* C3 as stated: an event starts a rebuild only if at least 1 second has passed
\* since the last event-triggered rebuild, an event inside that second is
\* dropped and never replayed, and of a burst of events within one second only
\* the first one starts a rebuild.
C3_BurstFirstEvent ==
    /\ \A i \in 1..Len(log) : Built(log[i]) => PastWindow(log[i])
    /\ \A i \in 1..Len(log) : ~PastWindow(log[i]) => log[i].out = "dropped"
    /\ NeverReplayed
    /\ \A j \in 1..Len(log) : \A i \in 1..(j - 1) :
          (PastWindow(log[i]) /\ log[j].occ - log[i].occ < Window)
              => ~Built(log[j])

\* C3, amended: an event starts a rebuild only if at least 1 second has passed
\* since the last event-triggered rebuild returned, an event inside that second
\* is dropped and never replayed, and of a burst of events within one second
\* the first one on a non-excluded path that is past the window starts the one
\* rebuild.
C3_BurstFirstSourceEvent ==
    /\ \A i \in 1..Len(log) : Built(log[i]) => PastWindow(log[i])
    /\ \A i \in 1..Len(log) : ~PastWindow(log[i]) => log[i].out = "dropped"
    /\ NeverReplayed
    /\ \A j \in 1..Len(log) : \A i \in 1..(j - 1) :
          (log[j].occ - log[i].occ < Window /\ PastWindow(log[i])
                 /\ ~OnExcludedPath(log[i]))
              => (Built(log[i]) /\ ~Built(log[j]))

\* a rebuild took three tenths of a second, and the source event that came two
\* tenths after the one that started it was dropped
C3_Witness ==
    \E i, j \in 1..Len(log) :
        /\ i < j
        /\ Built(log[i])
        /\ ~OnExcludedPath(log[j])
        /\ log[j].occ - log[i].occ = 2
        /\ log[j].out = "dropped"
        /\ log[j].done - log[i].at = 3

\* 0.3 s and 1.5 s, in tenths of a second
Gap03 == (3 * Window) \div 10
Gap15 == (15 * Window) \div 10

\* C4 as stated: of two events on non-excluded paths 0.3 s apart the second
\* starts no rebuild, and a non-excluded event that occurs at least 1 s after
\* the event that started the previous rebuild starts a rebuild, whatever the
\* build takes.
C4_RebuildAfterTrigger ==
    /\ \A j \in 1..Len(log) : \A i \in 1..(j - 1) :
          (log[j].occ - log[i].occ = Gap03 /\ Built(log[i]) /\ ~OnExcludedPath(log[j]))
              => ~Built(log[j])
    /\ \A j \in 1..Len(log) :
          (log[j].trig # -1 /\ log[j].occ - log[j].trig >= Window
                 /\ ~OnExcludedPath(log[j]))
              => Built(log[j])

\* C4, amended: of two events on non-excluded paths 0.3 s apart the second
\* starts no rebuild, and a non-excluded event that occurs at least 1 s after
\* the previous rebuild returned starts a rebuild; so two events 1.5 s apart
\* start two rebuilds when the first rebuild takes at most 0.5 s.
C4_RebuildAfterReturn ==
    /\ \A j \in 1..Len(log) : \A i \in 1..(j - 1) :
          (log[j].occ - log[i].occ = Gap03 /\ Built(log[i]) /\ ~OnExcludedPath(log[j]))
              => ~Built(log[j])
    /\ \A j \in 1..Len(log) :
          ((log[j].done = -1 \/ log[j].occ - log[j].done >= Window)
                 /\ ~OnExcludedPath(log[j]))
              => Built(log[j])
    /\ \A j \in 1..Len(log) : \A i \in 1..(j - 1) :
          (log[j].occ - log[i].occ = Gap15 /\ Built(log[i])
                 /\ log[j].done - log[i].at <= Gap15 - Window
                 /\ ~OnExcludedPath(log[j]))
              => Built(log[j])

\* two source events 1.5 s apart have started two rebuilds, the first of which
\* took half a second
C4_Witness ==
    \E i, j \in 1..Len(log) :
        /\ i < j
        /\ Built(log[i]) /\ Built(log[j])
        /\ log[j].occ - log[i].occ = Gap15
        /\ log[j].done - log[i].at = Gap15 - Window

-----------------------------------------------------------------------------
(* Runs of `build.py` on a source tree and an output directory *)

\* what a passthrough file left by an earlier publication may hold
CnameTexts ==
    { <<>>,                                   \* an empty file
      <<"x">>,
      <<"x", CR, NL>>,                        \* a line ended CR LF
      <<"x", NL>> }

StaleEntries ==
    { <<"old.html", TextFile(<<"o">>)>>,
      <<"style.css", TextFile(<<"1">>)>> }

PreDocs ==
    { c \cup st : c \in {{}} \cup {{<<CNAME, TextFile(t)>>} : t \in CnameTexts},
                  st \in SUBSET StaleEntries }

StaticEntries ==
    { <<CNAME, TextFile(<<"s">>)>>,
      <<CNAME, Directory>>,
      <<"style.css", TextFile(<<"2">>)>>,
      <<INDEX, TextFile(<<"i">>)>>,
      <<INDEX, Directory>> }

StaticDirs ==
    { d \in SUBSET StaticEntries : \A p, q \in d : p[1] = q[1] => p = q }

ContentTexts ==
    { <<"x">>,                                                \* no frontmatter
      Compose(<< <<"t", COLON, SP, "T">> >>, <<"x">>),        \* t: T
      Compose(<< <<"s", "l", "u", "g", COLON, SP, "b">> >>, <<"x">>) }  \* slug: b

ContentDirs ==
    { a \cup b : a \in {{}} \cup {{<< <<"a">>, t >>} : t \in ContentTexts},
                 b \in {{}, {<< <<"b">>, <<"y">> >>}} }

InitFs ==
    /\ docsIno = 0
    /\ \/ docsExists = FALSE /\ docs = {}
       \/ docsExists = TRUE /\ docs \in PreDocs
    /\ \/ staticExists = FALSE /\ static = {}
       \/ staticExists = TRUE /\ static \in StaticDirs
    /\ \/ contentExists = FALSE /\ contentFiles = {}
       \/ contentExists = TRUE /\ contentFiles \in ContentDirs

\* a fixed small tree, for the runs that are not about the build
FsIdle ==
    /\ docsIno = 0
    /\ docsExists = FALSE /\ docs = {}
    /\ staticExists = TRUE /\ static = {<<"style.css", TextFile(<<"2">>)>>}
    /\ contentExists = TRUE /\ contentFiles = {<< <<"a">>, <<"x">> >>}

\* lines 197-198: `build.py` without a subcommand
RunBuild ==
    /\ BuildEnter
    /\ UNCHANGED watchVars

InitBuild == ParseIdle /\ InitFs /\ BuildIdle /\ WatchIdle

NextBuild ==
    \/ RunBuild
    \/ BuildReset
    \/ BuildRestore
    \/ BuildCopyOne
    \/ BuildCopyError
    \/ BuildCopyDone
    \/ BuildLoadOne
    \/ BuildLoadError
    \/ BuildLoadDone
    \/ BuildRender
    \/ BuildTemplateError
    \/ BuildWriteError

SpecBuild == InitBuild /\ [][NextBuild]_vars

-----------------------------------------------------------------------------
(* watch() with the preview server: build() step by step *)

\* line 166: the initial build
MainInitialBuild ==
    /\ mpc = "start"
    /\ BuildEnter
    /\ mpc' = "building"
    /\ UNCHANGED <<timeVars, spc, cwd, req>>

\* lines 169-171: the initial build has returned; the observer is started
MainStartObserver ==
    /\ mpc = "building"
    /\ bpc = "done"
    /\ bpc' = "idle"
    /\ hpc' = "idle"
    /\ mpc' = "observing"
    /\ UNCHANGED <<parseVars, fsVars, cname_content, todo, ctodo, pages, pre, copied,
                   failedAt, nbuilds, now, last_build, queue, elapsed, nev, nenv, log,
                   lastDone, lastTrig, spc, cwd, req>>

\* lines 174-175: the server thread is started
MainStartServer ==
    /\ mpc = "observing"
    /\ spc' = "chdir"
    /\ mpc' = "loop"
    /\ UNCHANGED <<parseVars, fsVars, buildVars, timeVars, cwd, req>>

\* line 128: os.chdir(OUTPUT_DIR) binds the process to the directory that has
\* the name at that moment
ServeChdir ==
    /\ spc = "chdir"
    /\ docsExists
    /\ cwd' = docsIno
    /\ spc' = "serving"
    /\ UNCHANGED <<parseVars, fsVars, buildVars, timeVars, mpc, req>>

\* what the working directory holds: the entries of OUTPUT_DIR while it is
\* still the directory chdir bound, nothing once rmtree has removed it
CwdView == IF cwd = docsIno THEN <<"ok", docs>> ELSE <<"gone", {}>>

\* lines 130-135: SimpleHTTPRequestHandler answers a request from the
\* working directory
ServeRequest ==
    /\ spc = "serving"
    /\ req' = <<"seen", CwdView, bpc \notin {"idle", "done"}, docs>>
    /\ UNCHANGED <<parseVars, fsVars, buildVars, timeVars, mpc, spc, cwd>>

\* on_any_event calls build()
OnEventEntersBuild ==
    /\ OnEventCallsBuild
    /\ BuildEnter

InitServe ==
    /\ ParseIdle
    /\ FsIdle
    /\ BuildIdle
    /\ now = StartTime
    /\ last_build = 0
    /\ queue = <<>>
    /\ hpc = "off"
    /\ elapsed = 0
    /\ nev = 0
    /\ nenv = 0
    /\ log = <<>>
    /\ lastDone = -1
    /\ lastTrig = -1
    /\ mpc = "start"
    /\ spc = "off"
    /\ cwd = -1
    /\ req = <<"none">>

NextServe ==
    \/ MainInitialBuild
    \/ MainStartObserver
    \/ MainStartServer
    \/ ServeChdir
    \/ ServeRequest
    \/ EnvEvent
    \/ Tick
    \/ OnEventDebounced
    \/ OnEventExcluded
    \/ OnEventEntersBuild
    \/ OnEventReturn
    \/ BuildReset
    \/ BuildRestore
    \/ BuildCopyOne
    \/ BuildCopyDone
    \/ BuildLoadOne
    \/ BuildLoadDone
    \/ BuildRender

SpecServe == InitServe /\ [][NextServe]_vars

\* C9: a preview request handled while no build is in progress is answered
\* from the complete output directory the last build wrote: it sees the
\* directory's entries, the index document among them; only a request handled
\* during a rebuild can find the directory empty or without its index.
C9_ServedFromCompleteOutput ==
    (req[1] = "seen" /\ ~req[3])
        => /\ req[2] = <<"ok", req[4]>>
           /\ INDEX \in DictKeys(req[2][2])
           /\ CNAME \in DictKeys(req[2][2])

-----------------------------------------------------------------------------
(* Claims about build() *)

SourceStatic == IF staticExists THEN static ELSE {}
SourceContent == IF contentExists THEN contentFiles ELSE {}

\* C1: a build that runs to completion leaves docs/CNAME equal to what it held
\* before the build when it existed, the empty text included, and equal to the
\* default when it did not exist.
C1_PassthroughKept ==
    bpc = "done"
        => /\ CNAME \in DictKeys(docs)
           /\ DictGet(docs, CNAME) =
                 IF pre[1] /\ CNAME \in DictKeys(pre[2])
                 THEN DictGet(pre[2], CNAME)
                 ELSE TextFile(DefaultCname)

\* C2: after a build that runs to completion the output directory holds CNAME,
\* the index.html this build rendered and the copies of the top-level entries
\* of static/, and nothing else: no other entry it held before survives.
C2_OutputReplaced ==
    bpc = "done"
        => /\ DictKeys(docs) = {CNAME, INDEX} \cup DictKeys(SourceStatic)
           /\ DictGet(docs, INDEX) = <<"html", pages>>
           /\ DictGet(docs, CNAME)[1] = "text"
           /\ \A p \in docs : p[1] \notin {CNAME, INDEX} => p \in SourceStatic
           /\ \A p \in pre[2] : p \in docs => (p[1] \in {CNAME, INDEX} \/ p \in SourceStatic)

\* a completed build over an output directory that held a stale page and an
\* older copy of an asset
C2_Witness ==
    /\ bpc = "done"
    /\ <<"old.html", TextFile(<<"o">>)>> \in pre[2]
    /\ <<"style.css", TextFile(<<"1">>)>> \in pre[2]
    /\ <<"style.css", TextFile(<<"2">>)>> \in docs
    /\ nbuilds = 1

RestoredOrDefault ==
    {TextFile(DefaultCname)}
        \cup (IF pre[1] /\ CNAME \in DictKeys(pre[2])
              THEN {TextFile(read_text(DictGet(pre[2], CNAME)[2]))} ELSE {})

\* no step after the failing one has run
NoLaterStep ==
    /\ failedAt = "copy" => pages = {}
    /\ \A p \in docs : p[2][1] # "html"

\* the entries the directory held before the build are gone
NotRestored ==
    \A p \in pre[2] : p \in docs => (p[1] = CNAME \/ p \in SourceStatic \/ p[2] = Partial)

\* C10 as stated: when a step after the reset raises, no later step runs, the
\* previous contents are not restored and the output directory holds only what
\* the completed steps wrote: the passthrough file and the assets copied so
\* far, and no index document.
C10_AbortLeavesCompletedSteps ==
    bpc = "failed"
        => /\ NoLaterStep
           /\ NotRestored
           /\ DictKeys(docs) = {CNAME} \cup copied
           /\ \A n \in copied : DictGet(docs, n) = DictGet(static, n)
           /\ CNAME \notin copied => DictGet(docs, CNAME) \in RestoredOrDefault

\* C10, amended: when a step after the reset raises, no later step runs, the
\* previous contents are not restored and the output directory holds what the
\* completed steps wrote (the passthrough file and the assets copied so far)
\* and at most one file the failing step itself left incomplete: a partly
\* copied asset or, when the index write fails after opening the file, a
\* truncated index.html. It never holds an index document this build rendered.
C10_AbortLeavesCompletedStepsAndPartial ==
    bpc = "failed"
        => /\ NoLaterStep
           /\ NotRestored
           /\ CNAME \in DictKeys(docs)
           /\ \A p \in docs : p[1] \in {CNAME} \cup copied \/ p[2] = Partial
           /\ Cardinality({p \in docs : p[2] = Partial}) <= 1
           /\ \A p \in docs : p[2] = Partial =>
                 \/ failedAt = "copy" /\ p[1] \in DictKeys(static) \ copied
                 \/ failedAt = "write" /\ p[1] = INDEX
           /\ \A n \in copied : DictGet(docs, n) \in {DictGet(static, n), Partial}
           /\ CNAME \notin copied => DictGet(docs, CNAME) \in RestoredOrDefault \cup {Partial}

\* the template lookup raised after an asset was copied into a directory that
\* held a stale page before the build
C10_Witness ==
    /\ bpc = "failed"
    /\ failedAt = "template"
    /\ copied # {}
    /\ <<"old.html", TextFile(<<"o">>)>> \in pre[2]
    /\ DictKeys(docs) = {CNAME} \cup copied

-----------------------------------------------------------------------------
(* Runs of parse_frontmatter *)

NextParse == Parse

InitParseRun == InitParse /\ FsIdle /\ BuildIdle /\ WatchIdle

SpecParse == InitParseRun /\ [][NextParse]_vars

-----------------------------------------------------------------------------
(* Claims about parse_frontmatter *)

\* the marker occurs again after the opening marker
MarkerRecurs(t) ==
    \E k \in 4..(Len(t) - 2) : t[k] = DASH /\ t[k + 1] = DASH /\ t[k + 2] = DASH

\* C7: for every text that does not start with the marker, or starts with it
\* but in which the marker does not recur, parse_frontmatter returns the empty
\* mapping and the text itself as body, character for character.
C7_FallbackKeepsText ==
    (parsed[1] = "ok" /\ (~StartsWith(text, MARKER) \/ ~MarkerRecurs(text)))
        => (parsed[2] = {} /\ parsed[3] = text)

\* a text that opens with the marker, never closes it and ends in whitespace
C7_Witness ==
    /\ parsed[1] = "ok"
    /\ StartsWith(text, MARKER)
    /\ ~MarkerRecurs(text)
    /\ Len(text) > Len(MARKER)
    /\ text[Len(text)] \in Whitespace
    /\ parsed[3] = text

\* one layer of enclosing double quotes removed
Unquote1(v) ==
    IF Len(v) >= 2 /\ v[1] = QUOTE /\ v[Len(v)] = QUOTE
    THEN Slice(v, 2, Len(v) - 1) ELSE v

\* the entry the header line `key: value` stands for
LineEntry(line) ==
    LET k == Find(line, <<COLON>>, 1)
    IN  <<Strip(Slice(line, 1, k - 1)), Unquote1(Strip(Slice(line, k + 1, Len(line))))>>

ValidOf(ls) == {i \in 1..Len(ls) : Has(ls[i], COLON)}

DistinctKeys(ls) ==
    \A i, j \in ValidOf(ls) : i # j => LineEntry(ls[i])[1] # LineEntry(ls[j])[1]

\* C8: for a header block of N `key: value` lines with pairwise distinct
\* trimmed keys and M lines without a separator, the mapping has exactly N
\* entries, each the trimmed key mapped to the trimmed value with one layer of
\* enclosing double quotes removed.
C8_HeaderEntries ==
    (parsed[1] = "ok" /\ hdr[1] = "composed" /\ DistinctKeys(hdr[2]))
        => /\ Cardinality(parsed[2]) = Cardinality(ValidOf(hdr[2]))
           /\ parsed[2] = {LineEntry(hdr[2][i]) : i \in ValidOf(hdr[2])}

====
